---- MODULE Spec2Model ----
(***************************************************************************)
(* The BLS transit-search stage of the TESS pipeline (src/src/src/search.py)*)
(* as a state machine: main() reads a lightcurve, calls run_bls, writes the *)
(* periodogram table, calls pick_best and writes the summary record.        *)
(*                                                                          *)
(* Numbers.  Periods and durations are exact rationals num/den (den > 0)    *)
(* in millidays (0.001 day), so 0.005 d = 5 and 0.5 d = 500.  Samples and   *)
(* power values are floats of four kinds: finite, NaN, +Infinity, -Infinity.*)
(* The external calls (numpy, astropy BoxLeastSquares) are modelled by      *)
(* their documented behaviour; the BLS primitive itself is opaque and its   *)
(* answer for the run is drawn in Init.                                     *)
(***************************************************************************)
EXTENDS Integers, Sequences, FiniteSets, TLC

VARIABLES
    ts,                 \* the lightcurve file's samples, a sequence of [t, y]
    min_period,         \* --min-period, millidays
    max_period,         \* --max-period, millidays
    n_periods,          \* --n-periods
    duration_fraction,  \* run_bls's duration_fraction, a rational
    primitive,          \* what BoxLeastSquares answers in this run
    pc,                 \* main()'s position
    lc,                 \* the lightcurve main() has read
    grid,               \* <<>> or <<[periods, durations]>> built inside run_bls
    blsArgs,            \* one entry per invocation of the BLS primitive
    returned,           \* <<>> or <<[periods, durations, power]>> run_bls returned
    csv,                \* <<>> or <<rows>>: the periodogram table on disk
    best,               \* <<>> or <<[period, power]>> pick_best returned
    summary,            \* <<>> or <<[best_period, best_power]>>: the summary on disk
    err                 \* the exception that ended main(), NoErr if none

vars == <<ts, min_period, max_period, n_periods, duration_fraction, primitive,
          pc, lc, grid, blsArgs, returned, csv, best, summary, err>>

----------------------------------------------------------------------------
(* Bounds of the model. *)

MaxLen == 11
MaxBad == 2
MaxN == 3

(* Program constants. *)

MinPoints == 10
MinDuration == 5
MaxDuration == 500

----------------------------------------------------------------------------
(* Floats: finite values, NaN and the two infinities. *)

Fin(v) == [k |-> "fin", v |-> v]
NaN == [k |-> "nan", v |-> 0]
PosInf == [k |-> "inf", v |-> 0]
NegInf == [k |-> "ninf", v |-> 0]

\* np.isfinite with the infinities let through (a plausible slip: np.isnan).
IsFinite_NanOnly(x) == x.k # "nan"

\* np.isfinite
IsFinite(x) == x.k = "fin"

\* a > b on floats that are not NaN
FGt(a, b) ==
    \/ a.k = "inf" /\ b.k # "inf"
    \/ a.k = "fin" /\ b.k = "ninf"
    \/ a.k = "fin" /\ b.k = "fin" /\ a.v > b.v

----------------------------------------------------------------------------
(* Exact rationals. *)

RECURSIVE GCD(_, _)
GCD(a, b) == IF b = 0 THEN a ELSE GCD(b, a % b)

Abs(x) == IF x < 0 THEN -x ELSE x

Rat(n, d) ==
    LET g == GCD(Abs(n), d) IN
    IF g = 0 THEN [num |-> 0, den |-> 1] ELSE [num |-> n \div g, den |-> d \div g]

RAdd(a, b) == Rat(a.num * b.den + b.num * a.den, a.den * b.den)
RSub(a, b) == Rat(a.num * b.den - b.num * a.den, a.den * b.den)
RMul(a, b) == Rat(a.num * b.num, a.den * b.den)
RLt(a, b) == a.num * b.den < b.num * a.den
RLe(a, b) == a.num * b.den <= b.num * a.den

----------------------------------------------------------------------------
(* Exceptions: the type, where it is raised, and the exception wrapping it  *)
(* ("none": it propagates as raised).                                       *)

NoErr == [type |-> "none", raisedAt |-> "none", wrappedBy |-> "none"]
NotEnoughPoints == [type |-> "ValueError", raisedAt |-> "run_bls", wrappedBy |-> "none"]
LinspaceError == [type |-> "ValueError", raisedAt |-> "np.linspace", wrappedBy |-> "none"]
PrimitiveFailure == [type |-> "Exception", raisedAt |-> "BoxLeastSquares", wrappedBy |-> "none"]
ArgmaxEmpty == [type |-> "ValueError", raisedAt |-> "np.nanargmax:empty", wrappedBy |-> "none"]
ArgmaxAllNaN == [type |-> "ValueError", raisedAt |-> "np.nanargmax:all-nan", wrappedBy |-> "none"]

----------------------------------------------------------------------------
(* numpy, as search.py uses it. *)

\* np.linspace with endpoint=False: the last point falls short of stop.
Linspace_NoEndpoint(start, stop, num) ==
    [i \in 1..num |-> RAdd(RMul(Rat(i - 1, 1), Rat(stop - start, num)), Rat(start, 1))]

\* np.linspace(start, stop, num) for num >= 0: step = (stop - start) / (num - 1),
\* y[i] = i * step + start, and the last point is set to stop itself.
Linspace(start, stop, num) ==
    LET div == num - 1
        delta == stop - start
        step == IF div > 0 THEN Rat(delta, div) ELSE Rat(delta, 1)
    IN  [i \in 1..num |->
            IF num > 1 /\ i = num
            THEN Rat(stop, 1)
            ELSE RAdd(RMul(Rat(i - 1, 1), step), Rat(start, 1))]

RMax(a, b) == IF RLt(a, b) THEN b ELSE a
RMin(a, b) == IF RLt(b, a) THEN b ELSE a

\* np.clip that forgets the upper limit.
Clip_NoUpper(a, lo, hi) == RMax(a, lo)

\* np.clip(a, lo, hi) = minimum(maximum(a, lo), hi)
Clip(a, lo, hi) == RMin(RMax(a, lo), hi)

\* a[mask]: the entries of a where mask is True, in order
RECURSIVE BoolIndex(_, _)
BoolIndex(a, mask) ==
    IF a = <<>> THEN <<>>
    ELSE (IF Head(mask) THEN <<Head(a)>> ELSE <<>>) \o BoolIndex(Tail(a), Tail(mask))

\* np.argmax's scan: the first index holding the maximum
RECURSIVE ArgmaxScan(_, _, _)
ArgmaxScan(a, i, bestIdx) ==
    IF i > Len(a) THEN bestIdx
    ELSE ArgmaxScan(a, i + 1, IF FGt(a[i], a[bestIdx]) THEN i ELSE bestIdx)

\* np.nanargmax(a): NaN is replaced by -inf, an empty or all-NaN input raises,
\* then np.argmax.
NanArgmax(a) ==
    LET replaced == [i \in 1..Len(a) |-> IF a[i].k = "nan" THEN NegInf ELSE a[i]]
    IN  IF Len(a) = 0 THEN [err |-> ArgmaxEmpty, idx |-> 0]
        ELSE IF \A i \in 1..Len(a) : a[i].k = "nan" THEN [err |-> ArgmaxAllNaN, idx |-> 0]
        ELSE [err |-> NoErr, idx |-> ArgmaxScan(replaced, 2, 1)]

----------------------------------------------------------------------------
(* search.py *)

\* period_to_duration_guess: fraction * periods, clipped to [0.005, 0.5] days
period_to_duration_guess(periods, fraction) ==
    [i \in 1..Len(periods) |->
        Clip(RMul(fraction, periods[i]), Rat(MinDuration, 1), Rat(MaxDuration, 1))]

\* mask = np.isfinite(t) & np.isfinite(y)
FiniteMask(t, y) == [i \in 1..Len(t) |-> IsFinite(t[i]) /\ IsFinite(y[i])]

\* The length test off by one.
TooFewPoints_OffByOne(t) == Len(t) < MinPoints - 1

\* if len(t) < 10
TooFewPoints(t) == Len(t) < MinPoints

\* BoxLeastSquares(t, y).power(periods, durations), tried again after a failure.
BlsPower_Retry(t, y, periods, durations, prim) ==
    LET args == [t |-> t, y |-> y, periods |-> periods, durations |-> durations]
    IN  IF prim.fails
        THEN [calls |-> <<args, args>>, err |-> PrimitiveFailure, power |-> <<>>]
        ELSE [calls |-> <<args>>, err |-> NoErr, power |-> prim.power]

\* bls = BoxLeastSquares(t, y); result = bls.power(periods, durations): one
\* invocation of the primitive, whose exception is not caught.
BlsPower(t, y, periods, durations, prim) ==
    LET args == [t |-> t, y |-> y, periods |-> periods, durations |-> durations]
    IN  IF prim.fails
        THEN [calls |-> <<args>>, err |-> PrimitiveFailure, power |-> <<>>]
        ELSE [calls |-> <<args>>, err |-> NoErr, power |-> prim.power]

\* run_bls(lc, min_period, max_period, n_periods, duration_fraction)
run_bls(curve, minp, maxp, n, fraction, prim) ==
    LET t0 == [i \in 1..Len(curve) |-> curve[i].t]
        y0 == [i \in 1..Len(curve) |-> curve[i].y]
        mask == FiniteMask(t0, y0)
        t == BoolIndex(t0, mask)
        y == BoolIndex(y0, mask)
        periods == Linspace(minp, maxp, n)
        durations == period_to_duration_guess(periods, fraction)
        res == BlsPower(t, y, periods, durations, prim)
    IN  IF TooFewPoints(t)
        THEN [err |-> NotEnoughPoints, grid |-> <<>>, calls |-> <<>>, returned |-> <<>>]
        ELSE IF n < 0
        THEN [err |-> LinspaceError, grid |-> <<>>, calls |-> <<>>, returned |-> <<>>]
        ELSE [err |-> res.err,
              grid |-> <<[periods |-> periods, durations |-> durations]>>,
              calls |-> res.calls,
              returned |-> IF res.err = NoErr
                           THEN <<[periods |-> periods, durations |-> durations,
                                   power |-> res.power]>>
                           ELSE <<>>]

\* pick_best(periods, power)
pick_best(periods, power) ==
    LET r == NanArgmax(power)
    IN  IF r.err # NoErr
        THEN [err |-> r.err, best |-> <<>>]
        ELSE [err |-> NoErr,
              best |-> <<[period |-> periods[r.idx], power |-> power[r.idx]]>>]

----------------------------------------------------------------------------
(* main() *)

\* lc = lk.LightCurve.read(args.input)
Read ==
    /\ pc = "read"
    /\ lc' = ts
    /\ pc' = "run_bls"
    /\ UNCHANGED <<ts, min_period, max_period, n_periods, duration_fraction,
                   primitive, grid, blsArgs, returned, csv, best, summary, err>>

\* periods, durations, result = run_bls(lc, ...)
RunBls ==
    /\ pc = "run_bls"
    /\ LET r == run_bls(lc, min_period, max_period, n_periods, duration_fraction, primitive)
       IN  /\ grid' = r.grid
           /\ blsArgs' = r.calls
           /\ returned' = r.returned
           /\ err' = r.err
           /\ pc' = IF r.err = NoErr THEN "save" ELSE "raised"
    /\ UNCHANGED <<ts, min_period, max_period, n_periods, duration_fraction,
                   primitive, lc, csv, best, summary>>

\* save_bls_results(periods, result.power, out): one row per grid point
SaveBlsResults ==
    /\ pc = "save"
    /\ csv' = <<[i \in 1..Len(returned[1].periods) |->
                    [period |-> returned[1].periods[i], power |-> returned[1].power[i]]]>>
    /\ pc' = "pick_best"
    /\ UNCHANGED <<ts, min_period, max_period, n_periods, duration_fraction,
                   primitive, lc, grid, blsArgs, returned, best, summary, err>>

\* best_period, best_power = pick_best(periods, result.power)
PickBest ==
    /\ pc = "pick_best"
    /\ LET r == pick_best(returned[1].periods, returned[1].power)
       IN  /\ best' = r.best
           /\ err' = r.err
           /\ pc' = IF r.err = NoErr THEN "write_json" ELSE "raised"
    /\ UNCHANGED <<ts, min_period, max_period, n_periods, duration_fraction,
                   primitive, lc, grid, blsArgs, returned, csv, summary>>

\* write_json(out.summary.json, {"best_period": ..., "best_power": ...})
WriteJson ==
    /\ pc = "write_json"
    /\ summary' = <<[best_period |-> best[1].period, best_power |-> best[1].power]>>
    /\ pc' = "done"
    /\ UNCHANGED <<ts, min_period, max_period, n_periods, duration_fraction,
                   primitive, lc, grid, blsArgs, returned, csv, best, err>>

Next ==
    \/ Read
    \/ RunBls
    \/ SaveBlsResults
    \/ PickBest
    \/ WriteJson

----------------------------------------------------------------------------
(* Inputs. *)

\* Sample i of an undamaged lightcurve: time i, flux 1000 - i (per mille).
GoodSample(i) == [t |-> Fin(i), y |-> Fin(1000 - i)]

BadKinds == {"t_nan", "t_inf", "y_nan", "y_ninf"}

BadSample(i, kind) ==
    CASE kind = "t_nan" -> [t |-> NaN, y |-> Fin(1000 - i)]
      [] kind = "t_inf" -> [t |-> PosInf, y |-> Fin(1000 - i)]
      [] kind = "y_nan" -> [t |-> Fin(i), y |-> NaN]
      [] kind = "y_ninf" -> [t |-> Fin(i), y |-> NegInf]

\* A lightcurve of len samples, damaged at the positions in DOMAIN bad.
MkSeries(len, bad) ==
    [i \in 1..len |-> IF i \in DOMAIN bad THEN BadSample(i, bad[i]) ELSE GoodSample(i)]

\* The lengths of the lightcurves read, and where one may be damaged.
SeriesLens == {0} \cup ((MinPoints - 2)..MaxLen)
DamageSets(len) == {S \in SUBSET (1..len) : Cardinality(S) <= MaxBad}

GoodSeries == MkSeries(MinPoints, <<>>)

PowerSeqs(n, vals) == IF n > 0 THEN [1..n -> vals] ELSE {<<>>}

PrimitiveFails == [fails |-> TRUE, power |-> <<>>]
PrimitiveReturns(p) == [fails |-> FALSE, power |-> p]

DefaultFraction == Rat(1, 20)

InitControl ==
    /\ pc = "read"
    /\ lc = <<>>
    /\ grid = <<>>
    /\ blsArgs = <<>>
    /\ returned = <<>>
    /\ csv = <<>>
    /\ best = <<>>
    /\ summary = <<>>
    /\ err = NoErr

\* main() on damaged lightcurves, with the default duration fraction.
Init ==
    /\ \E len \in SeriesLens : \E B \in DamageSets(len) : \E bad \in [B -> BadKinds] :
          ts = MkSeries(len, bad)
    /\ min_period = 500
    /\ max_period = 10000
    /\ n_periods \in {-1, MaxN}
    /\ duration_fraction = DefaultFraction
    /\ primitive \in {PrimitiveFails}
            \cup {PrimitiveReturns(p) : p \in PowerSeqs(n_periods, {Fin(n_periods)})}
            \cup {PrimitiveReturns(p) : p \in PowerSeqs(n_periods, {NaN})}
    /\ InitControl

Spec == Init /\ [][Next]_vars

\* The search configurations, on an undamaged lightcurve.
InitGrid ==
    /\ ts = GoodSeries
    /\ min_period \in {-500, 0, 1, 40, 500, 2000}
    /\ max_period \in {1, 40, 500, 2000, 12000, 30000}
    /\ n_periods \in -1..MaxN
    /\ duration_fraction \in {Rat(1, 20), Rat(1, 2), Rat(2, 1)}
    /\ primitive \in {PrimitiveFails}
            \cup {PrimitiveReturns(p) : p \in PowerSeqs(n_periods, {Fin(1)})}
    /\ InitControl

SpecGrid == InitGrid /\ [][Next]_vars

PowerVals == {NaN, NegInf, PosInf, Fin(5), Fin(9)}

\* The periodograms the primitive may return, on an undamaged lightcurve.
InitPick ==
    /\ ts = GoodSeries
    /\ min_period = 1000
    /\ max_period = 3000
    /\ n_periods \in 0..MaxN
    /\ duration_fraction = DefaultFraction
    /\ primitive \in {PrimitiveFails}
            \cup {PrimitiveReturns(p) : p \in PowerSeqs(n_periods, PowerVals)}
    /\ InitControl

SpecPick == InitPick /\ [][Next]_vars

----------------------------------------------------------------------------
(* What the properties speak of. *)

\* run_bls has been called and has returned or raised
AfterRunBls == pc \notin {"read", "run_bls"}

\* pick_best has been called and has returned or raised
AfterPickBest == csv # <<>> /\ pc \in {"write_json", "done", "raised"}

\* the exception run_bls ended with (a later one comes after the table is written)
RunBlsErr == IF csv = <<>> THEN err ELSE NoErr

\* main() has ended
Halted == pc \in {"done", "raised"}

FiniteSample(s) == s.t.k = "fin" /\ s.y.k = "fin"

\* the samples with t and y finite, in their original order
Kept(series) == SelectSeq(series, FiniteSample)

REq(a, b) == a.num * b.den = b.num * a.den

ValidConfig == min_period > 0 /\ max_period > min_period /\ n_periods >= 2

FinitePower(x) == x.k = "fin"

\* the lowest index whose power is the maximum over the finite entries
IsFirstFiniteMax(power, i) ==
    /\ FinitePower(power[i])
    /\ \A j \in 1..Len(power) : FinitePower(power[j]) => power[j].v <= power[i].v
    /\ \A j \in 1..(i - 1) : FinitePower(power[j]) => power[j].v < power[i].v

----------------------------------------------------------------------------
(* C1: whenever some power value is finite, pick_best returns                *)
(* (periods[i], power[i]) for the lowest index i whose power is the maximum  *)
(* over the finite entries; NaN, +Infinity and -Infinity are ignored.        *)
C1_PickBestMaxFinite ==
    (AfterPickBest /\ \E i \in 1..Len(returned[1].power) : FinitePower(returned[1].power[i]))
        => \E i \in 1..Len(returned[1].power) :
              /\ IsFirstFiniteMax(returned[1].power, i)
              /\ best = <<[period |-> returned[1].periods[i],
                           power |-> returned[1].power[i]]>>

(* C2: with fewer than 10 samples having t and y finite, run_bls raises its  *)
(* not-enough-points error, the BLS primitive is never invoked, nothing is   *)
(* returned, and neither the table nor the summary is written.               *)
C2_InsufficientData ==
    Len(Kept(ts)) < MinPoints
        => /\ blsArgs = <<>>
           /\ returned = <<>>
           /\ csv = <<>>
           /\ summary = <<>>
           /\ AfterRunBls => (pc = "raised" /\ err = NotEnoughPoints)

C2_Witness ==
    /\ pc = "raised"
    /\ err = NotEnoughPoints
    /\ Len(ts) > MinPoints
    /\ Len(Kept(ts)) = MinPoints - 1

(* C3: when main() has ended, either both the table and the summary are      *)
(* written or neither is, and after any error neither is.                    *)
C3_NoPartialOutput ==
    Halted => /\ (csv = <<>>) <=> (summary = <<>>)
              /\ err # NoErr => (csv = <<>> /\ summary = <<>>)

(* C4: pick_best raises on an empty periodogram and on one whose power       *)
(* values are all non-finite (NaN or either infinity); no best candidate is  *)
(* returned in either case.                                                  *)
C4_PickBestRejects ==
    (AfterPickBest /\ \A i \in 1..Len(returned[1].power) : ~FinitePower(returned[1].power[i]))
        => /\ pc = "raised"
           /\ best = <<>>
           /\ err = IF Len(returned[1].power) = 0 THEN ArgmaxEmpty ELSE ArgmaxAllNaN

(* C5: a configuration with max_period <= min_period, min_period <= 0 or     *)
(* n_periods < 2 is rejected before a grid is built or the primitive called. *)
C5_RejectsMalformedConfig ==
    (AfterRunBls /\ ~ValidConfig)
        => /\ pc = "raised"
           /\ grid = <<>>
           /\ blsArgs = <<>>
           /\ returned = <<>>

(* C6: every duration of the grid is duration_fraction * period clamped to   *)
(* [0.005, 0.5] days: the lower limit when the product is below it, the      *)
(* upper limit when above, the product itself otherwise.                     *)
C6_DurationClamp ==
    grid # <<>> =>
        \A i \in 1..Len(grid[1].periods) :
            LET raw == RMul(duration_fraction, grid[1].periods[i])
                d == grid[1].durations[i]
                lo == Rat(MinDuration, 1)
                hi == Rat(MaxDuration, 1)
            IN  /\ RLt(raw, lo) => REq(d, lo)
                /\ RLt(hi, raw) => REq(d, hi)
                /\ (RLe(lo, raw) /\ RLe(raw, hi)) => REq(d, raw)
                /\ RLe(lo, d) /\ RLe(d, hi)

C6_Witness ==
    /\ grid # <<>>
    /\ \E i \in 1..Len(grid[1].periods) :
          RLt(RMul(duration_fraction, grid[1].periods[i]), Rat(MinDuration, 1))
    /\ \E i \in 1..Len(grid[1].periods) :
          RLt(Rat(MaxDuration, 1), RMul(duration_fraction, grid[1].periods[i]))
    /\ \E i \in 1..Len(grid[1].periods) :
          /\ RLt(Rat(MinDuration, 1), RMul(duration_fraction, grid[1].periods[i]))
          /\ RLt(RMul(duration_fraction, grid[1].periods[i]), Rat(MaxDuration, 1))

(* C7: for a valid configuration no duration of the grid is greater than its *)
(* period.                                                                   *)
C7_DurationAtMostPeriod ==
    (ValidConfig /\ grid # <<>>)
        => \A i \in 1..Len(grid[1].periods) :
              RLe(grid[1].durations[i], grid[1].periods[i])

(* C8: for a valid configuration the grids have n_periods entries each, the  *)
(* periods run from min_period to max_period in equal ascending steps, and   *)
(* durations[i] is the duration guess of periods[i].                         *)
C8_GridShape ==
    (ValidConfig /\ grid # <<>>)
        => LET ps == grid[1].periods
               ds == grid[1].durations
           IN  /\ Len(ps) = n_periods
               /\ Len(ds) = n_periods
               /\ REq(ps[1], Rat(min_period, 1))
               /\ REq(ps[n_periods], Rat(max_period, 1))
               /\ \A i \in 1..(n_periods - 1) :
                     /\ RLt(ps[i], ps[i + 1])
                     /\ REq(RSub(ps[i + 1], ps[i]), RSub(ps[2], ps[1]))
               /\ \A i \in 1..n_periods :
                     ds[i] = period_to_duration_guess(<<ps[i]>>, duration_fraction)[1]

C8_Witness ==
    /\ ValidConfig
    /\ n_periods > 2
    /\ pc = "done"
    /\ Len(blsArgs) = 1
    /\ blsArgs[1].periods = grid[1].periods
    /\ blsArgs[1].durations = grid[1].durations

C10_FilteringEquivalence ==
    AfterRunBls =>
        LET kept == Kept(ts)
            pre == run_bls(kept, min_period, max_period, n_periods,
                           duration_fraction, primitive)
        IN  /\ \A c \in 1..Len(blsArgs) :
                  /\ blsArgs[c].t = [i \in 1..Len(kept) |-> kept[i].t]
                  /\ blsArgs[c].y = [i \in 1..Len(kept) |-> kept[i].y]
            /\ Len(kept) < MinPoints => RunBlsErr = NotEnoughPoints
            /\ RunBlsErr = pre.err
            /\ blsArgs = pre.calls
            /\ returned = pre.returned

C10_Witness ==
    /\ AfterRunBls
    /\ returned # <<>>
    /\ Len(blsArgs) = 1
    /\ Len(blsArgs[1].t) < Len(ts)

====
